---- MODULE Spec2Model ----
(***************************************************************************)
(* A model of the CEIPAL job proxy (skywing-backend).                      *)
(*                                                                         *)
(* The repository holds several revisions of the same server:              *)
(*   src/server.js                 (build "server")                        *)
(*   src/unnamed/part_000, 1-554   (build "part000": adds the 401/403      *)
(*                                  retry inside the bulk fetch, the       *)
(*                                  start-up token fetch and two timers)   *)
(* The variable build says which revision runs; it never changes.          *)
(*                                                                         *)
(* Node runs one callback at a time, so an action is the code that runs    *)
(* between two awaits: a request arriving, a timer firing, or an upstream  *)
(* response being processed together with every synchronous continuation   *)
(* behind it.                                                              *)
(*                                                                         *)
(* Time is counted in units of 5 minutes; Date.now() is the variable now.  *)
(***************************************************************************)
EXTENDS Integers, Sequences, FiniteSets, TLC

VARIABLES
  build,               \* which revision of the server runs
  listening,           \* app.listen's callback has run
  now,                 \* Date.now()
  accessToken,         \* let accessToken
  refreshToken,        \* let refreshToken
  accessTokenExpiry,   \* let accessTokenExpiry
  refreshTokenExpiry,  \* let refreshTokenExpiry
  cachedJobs,          \* let cachedJobs
  totalJobCount,       \* let totalJobCount
  cacheTimestamp,      \* let cacheTimestamp
  totalPages,          \* let totalPages
  tokenTimerDue,       \* next firing of setInterval(..., TOKEN_REFRESH_INTERVAL)
  cacheTimerDue,       \* next firing of setInterval(..., CACHE_REFRESH_INTERVAL)
  proc,                \* the flows in progress: requests, start-up, timers
  pub,                 \* history: what upstream reported to the fetch that published cachedJobs
  last                 \* history: the step just taken and what upstream answered

cred == <<accessToken, refreshToken, accessTokenExpiry, refreshTokenExpiry>>
cache == <<cachedJobs, totalJobCount, cacheTimestamp, totalPages>>
timers == <<tokenTimerDue, cacheTimerDue>>
vars == <<build, listening, now, cred, cache, timers, proc, pub, last>>

-----------------------------------------------------------------------------
(* Program constants, in units of 5 minutes.                               *)

ACCESS_LIFE == 288             \* 24 * 60 * 60 * 1000 ms
REFRESH_LIFE == 2016           \* 7 * 24 * 60 * 60 * 1000 ms
TOKEN_REFRESH_INTERVAL == 144  \* 12 * 60 * 60 * 1000 ms
CACHE_DURATION == 6            \* 30 * 60 * 1000 ms
CACHE_REFRESH_INTERVAL == 5    \* 25 * 60 * 1000 ms
PAGE_SIZE == 20                \* const limit = 20
DEFAULT_LIMIT == 100           \* req.query.limit ? ... : 100
DEFAULT_TOTAL_JOBS == 313      \* let totalJobCount = 313
DEFAULT_TOTAL_PAGES == 16      \* let totalPages = 16

\* null / undefined of a token or of a field of a record
NULL == "null"
\* null of an instant or of a number: JavaScript's relational operators and
\* truth tests read null as 0, and no instant the program stores is 0 (the
\* clock starts after the epoch).
NullTime == 0

-----------------------------------------------------------------------------
(* Bounds.                                                                 *)

StartTime == 1        \* Date.now() when the process starts
MaxCredTicks == 4     \* clock steps taken in Spec
MaxCacheTime == 6     \* the time SpecCache covers
MaxPages == 2         \* the largest num_pages upstream reports in SpecCache
MaxFetchPages == 3    \* the largest num_pages upstream reports in SpecFetch
MaxListing == 41      \* the longest snapshot in SpecRoutes
MaxRoutePage == 4     \* the largest page number requested in SpecRoutes
MaxSmallLimit == 2    \* the largest limit below the default in SpecRoutes

Builds == {"server", "part000"}
\* The request flows that can be in progress together.
Requests == {"r1", "r2"}
Background == {"startup", "tokenTimer", "cacheTimer"}
Procs == Requests \cup Background

\* What the upstream token endpoints can answer: a body with or without an
\* access_token, or an error with or without a response (status 0: none).
AccessTokens == {"A1", "A2"}
RefreshTokens == {"R1"}
ErrStatuses == {0, 401}
AuthResponses ==
  [type : {"ok"}, access_token : AccessTokens \cup {NULL},
   refresh_token : RefreshTokens, status : {200}]
  \cup [type : {"err"}, access_token : {NULL}, refresh_token : {NULL},
        status : ErrStatuses]
RefreshResponses ==
  [type : {"ok"}, access_token : AccessTokens \cup {NULL},
   refresh_token : {NULL}, status : {200}]
  \cup [type : {"err"}, access_token : {NULL}, refresh_token : {NULL},
        status : ErrStatuses]
NoUpstream ==
  [type |-> "-", access_token |-> NULL, refresh_token |-> NULL, status |-> 0]

-----------------------------------------------------------------------------
(* Job records and the pure functions of the two routes.                   *)
(* A string is a sequence of one-character strings; a field that is absent *)
(* is NULL; Created is the record's creation time as Date.getTime() reads  *)
(* it, 0 when the record has none.                                         *)

Job(id, created, title, city) ==
  [id |-> id, Created |-> created, job_title |-> title, client |-> NULL,
   skills |-> NULL, city |-> city, country |-> NULL, zip_code |-> NULL]

Lower(c) ==
  CASE c = "A" -> "a" [] c = "B" -> "b" [] c = "C" -> "c"
    [] c = "M" -> "m" [] c = "X" -> "x" [] OTHER -> c

\* String.prototype.toLowerCase
ToLowerCase(s) == [i \in 1..Len(s) |-> Lower(s[i])]

\* String.prototype.includes
Includes(s, t) ==
  \E i \in 0..(Len(s) - Len(t)) : \A j \in 1..Len(t) : s[i + j] = t[j]

\* Array.prototype.slice(start, end): a negative index counts from the end.
SliceIndex(n, len) ==
  IF n < 0 THEN (IF len + n < 0 THEN 0 ELSE len + n)
  ELSE (IF n > len THEN len ELSE n)

\* Mutant of Slice: the end index is included.
Slice_Inclusive(s, start, end) ==
  LET from == SliceIndex(start, Len(s))
      to == SliceIndex(end + 1, Len(s))
  IN IF from >= to THEN <<>> ELSE SubSeq(s, from + 1, to)

Slice(s, start, end) ==
  LET from == SliceIndex(start, Len(s))
      to == SliceIndex(end, Len(s))
  IN IF from >= to THEN <<>> ELSE SubSeq(s, from + 1, to)

\* Math.ceil(n / d) for n >= 0, d > 0
Ceil(n, d) == (n + d - 1) \div d

\* The comparator of both sorts: b's time minus a's when both records carry
\* a Created, otherwise 0.
CompareCreated(a, b) ==
  IF a.Created # 0 /\ b.Created # 0 THEN b.Created - a.Created ELSE 0

\* Array.prototype.sort as V8 runs it on a short array: the leading run is
\* found (and reversed when strictly descending), then every later element
\* is put in place by binary insertion.
RECURSIVE RunLength(_, _, _)
RunLength(s, i, desc) ==
  IF i > Len(s) THEN Len(s)
  ELSE LET order == CompareCreated(s[i], s[i - 1])
       IN IF (desc /\ order >= 0) \/ (~desc /\ order < 0) THEN i - 1
          ELSE RunLength(s, i + 1, desc)

Reverse(s) == [i \in 1..Len(s) |-> s[Len(s) + 1 - i]]

RECURSIVE InsertionPoint(_, _, _, _)
InsertionPoint(s, x, left, right) ==
  IF left >= right THEN left
  ELSE LET mid == left + ((right - left) \div 2)
       IN IF CompareCreated(x, s[mid + 1]) < 0
          THEN InsertionPoint(s, x, left, mid)
          ELSE InsertionPoint(s, x, mid + 1, right)

RECURSIVE BinaryInsertion(_, _)
BinaryInsertion(s, start) ==
  IF start > Len(s) THEN s
  ELSE LET x == s[start]
           at == InsertionPoint(s, x, 0, start - 1)
       IN BinaryInsertion(
            SubSeq(s, 1, at) \o <<x>> \o SubSeq(s, at + 1, start - 1)
              \o SubSeq(s, start + 1, Len(s)),
            start + 1)

SortByCreated(s) ==
  IF Len(s) < 2 THEN s
  ELSE LET desc == CompareCreated(s[2], s[1]) < 0
           run == RunLength(s, 3, desc)
           t == IF desc THEN Reverse(SubSeq(s, 1, run)) \o SubSeq(s, run + 1, Len(s))
                ELSE s
       IN BinaryInsertion(t, run + 1)

\* field?.toLowerCase().includes(term)
FieldHas(f, term) == f # NULL /\ Includes(ToLowerCase(f), term)

\* GET /api/searchjobs: the query filter
MatchesQuery(job, query) ==
  LET searchTerm == ToLowerCase(query)
  IN \/ FieldHas(job.job_title, searchTerm)
     \/ FieldHas(job.client, searchTerm)
     \/ FieldHas(job.skills, searchTerm)

\* GET /api/searchjobs: the location filter (zip_code?.toString() is not
\* lower-cased)
MatchesLocation(job, location) ==
  LET locationTerm == ToLowerCase(location)
  IN \/ FieldHas(job.city, locationTerm)
     \/ FieldHas(job.country, locationTerm)
     \/ (job.zip_code # NULL /\ Includes(job.zip_code, locationTerm))

NoBody ==
  [count |-> 0, num_pages |-> 0, page_number |-> 0, page_count |-> 0,
   next |-> 0, previous |-> 0, results |-> <<>>, total_count |-> 0,
   warning |-> FALSE]

\* Mutant of ListPageBody: a page beyond the last is answered with the last.
ListPageBody_ClampsPage(allJobs, page) ==
  LET pages == Ceil(Len(allJobs), PAGE_SIZE)
      shown == IF page > pages THEN pages ELSE page
      paginatedJobs == Slice(allJobs, (shown - 1) * PAGE_SIZE, shown * PAGE_SIZE)
  IN [NoBody EXCEPT
        !.count = Len(allJobs),
        !.num_pages = pages,
        !.page_number = page,
        !.page_count = Len(paginatedJobs),
        !.next = IF page < pages THEN page + 1 ELSE 0,
        !.previous = IF page > 1 THEN page - 1 ELSE 0,
        !.results = paginatedJobs]

\* Mutant of ListPageBody: the page number counts from 0.
ListPageBody_PageFromZero(allJobs, page) ==
  LET paginatedJobs == Slice(allJobs, page * PAGE_SIZE, (page + 1) * PAGE_SIZE)
      pages == Ceil(Len(allJobs), PAGE_SIZE)
  IN [NoBody EXCEPT
        !.count = Len(allJobs),
        !.num_pages = pages,
        !.page_number = page,
        !.page_count = Len(paginatedJobs),
        !.next = IF page < pages THEN page + 1 ELSE 0,
        !.previous = IF page > 1 THEN page - 1 ELSE 0,
        !.results = paginatedJobs]

\* GET /api/jobs: the response built from allJobs (next / previous: the page
\* number the link names, 0 for null).
ListPageBody(allJobs, page) ==
  LET paginatedJobs == Slice(allJobs, (page - 1) * PAGE_SIZE, page * PAGE_SIZE)
      pages == Ceil(Len(allJobs), PAGE_SIZE)
  IN [NoBody EXCEPT
        !.count = Len(allJobs),
        !.num_pages = pages,
        !.page_number = page,
        !.page_count = Len(paginatedJobs),
        !.next = IF page < pages THEN page + 1 ELSE 0,
        !.previous = IF page > 1 THEN page - 1 ELSE 0,
        !.results = paginatedJobs]

\* Mutant of SearchBody: a record passes when either filter accepts it.
SearchBody_EitherFilter(allJobs, query, location, limit, total) ==
  LET e(job) == \/ query # <<>> /\ MatchesQuery(job, query)
                \/ location # <<>> /\ MatchesLocation(job, location)
      filteredJobs == SelectSeq(allJobs, e)
      limitedResults == Slice(filteredJobs, 0, limit)
  IN [NoBody EXCEPT
        !.count = Len(filteredJobs),
        !.total_count = total,
        !.results = limitedResults,
        !.next = IF Len(limitedResults) < Len(filteredJobs) THEN 1 ELSE 0,
        !.num_pages = Ceil(Len(filteredJobs), PAGE_SIZE),
        !.page_number = 1]

\* GET /api/searchjobs: the response built from allJobs (next: 1 for true,
\* 0 for null).
SearchBody(allJobs, query, location, limit, total) ==
  LET q(job) == MatchesQuery(job, query)
      l(job) == MatchesLocation(job, location)
      \* Array.prototype.filter is SelectSeq
      byQuery == IF query # <<>> THEN SelectSeq(allJobs, q) ELSE allJobs
      filteredJobs == IF location # <<>> THEN SelectSeq(byQuery, l) ELSE byQuery
      limitedResults == Slice(filteredJobs, 0, limit)
  IN [NoBody EXCEPT
        !.count = Len(filteredJobs),
        !.total_count = total,
        !.results = limitedResults,
        !.next = IF Len(limitedResults) < Len(filteredJobs) THEN 1 ELSE 0,
        !.num_pages = Ceil(Len(filteredJobs), PAGE_SIZE),
        !.page_number = 1]

-----------------------------------------------------------------------------
(* Requests, responses and the flows in progress.                          *)

\* The query string of a request, after the handlers' parsing.
NoReq ==
  [route |-> "-", page |-> 0, query |-> <<>>, location |-> <<>>, limit |-> 0]
JobsReq(page) == [NoReq EXCEPT !.route = "jobs", !.page = page]
SearchReq(query, location, limit) ==
  [NoReq EXCEPT !.route = "search", !.query = query, !.location = location,
                !.limit = limit]

\* to is the request a redirect names: its path and query string, read as
\* the handlers read them.
NoResp == [status |-> 0, kind |-> "-", body |-> NoBody, to |-> NoReq]
\* res.redirect(url)
Redirect(to) == [NoResp EXCEPT !.status = 302, !.kind = "redirect", !.to = to]
\* res.json(body)
Json(kind, body) == [NoResp EXCEPT !.status = 200, !.kind = kind, !.body = body]
\* res.status(500).json(...) of ensureToken's catch block and of the routes'
AuthErrorResp == [NoResp EXCEPT !.status = 500, !.kind = "authError"]
RouteErrorResp == [NoResp EXCEPT !.status = 500, !.kind = "error"]

\* A flow: pc is the upstream call it awaits, ctx the caller that awaits it,
\* mw what ensureToken did with the request, err the status of the error
\* a catch block holds (0: an error without a response), acc the records of
\* page 1, first what page 1 reported, rest the outcome of pages 2..n,
\* order the pages 2..n in the order their answers arrived, reauth the number
\* of getAuthTokens() calls its catch blocks have made, session the value
\* refreshTokenExpiry had when refreshAccessToken sent the request that is
\* awaited (getAuthTokens alone assigns it, so it names the authentication
\* the access token sent in the Token header belongs to).
NoFirst == [num_pages |-> 0, count |-> 0]
IdleProc ==
  [pc |-> "idle", ctx |-> "-", req |-> NoReq, mw |-> "-", resp |-> NoResp,
   err |-> 0, acc |-> <<>>, first |-> NoFirst, rest |-> <<>>, order |-> <<>>,
   reauth |-> 0, session |-> NullTime]

\* The history variable: op names the operation of the step, p the flow it
\* belongs to, resp the upstream token response it processed, after says
\* whether the step before it completed an ensureToken call (so that a call
\* made now follows one in immediate succession), ctx is the caller that
\* flow p was awaiting for, inflight the flows inside a bulk fetch in the
\* order their fetches started, overtaken those of them whose fetch started
\* before the fetch that published the snapshot in place.
EnsureJustCompleted ==
  /\ last.p \in Requests
  /\ last.op = "ensureToken" \/ last.ctx = "ensure"
  /\ proc[last.p].mw \in {"next", "error"}

\* Flow q of the flows pr is inside fetchAllJobsAndUpdateCache.
FetchingIn(pr, q) ==
  \/ pr[q].pc \in {"page1", "pages", "retry1"}
  \/ pr[q].pc = "auth" /\ pr[q].ctx = "fetch"

\* The flows that stand before flow p in the sequence s.
Before(s, p) == {s[i] : i \in {j \in 1..Len(s) : \A k \in 1..j : s[k] # p}}

\* The flows whose bulk fetch is in flight after the step, in the order the
\* fetches started.
InFlightAfter ==
  LET still == SelectSeq(last.inflight, LAMBDA q : FetchingIn(proc', q))
      started == {q \in Procs : FetchingIn(proc', q) /\ ~FetchingIn(proc, q)}
  IN IF started = {} THEN still ELSE Append(still, CHOOSE q \in started : TRUE)

\* The flows whose bulk fetch is in flight after the step and started before
\* the fetch that published the snapshot in place.
OvertakenAfter(op, p) ==
  IF op \in {"page1", "page", "retry1"} /\ pub' # pub
  THEN Before(last.inflight, p)
  ELSE {q \in last.overtaken : FetchingIn(proc', q)}

Step(op, p, resp) ==
  [op |-> op, p |-> p, resp |-> resp, after |-> EnsureJustCompleted,
   ctx |-> IF p \in Procs THEN proc[p].ctx ELSE "-",
   inflight |-> InFlightAfter, overtaken |-> OvertakenAfter(op, p)]

\* What the history says of the published snapshot before any publication.
NoPub == [at |-> NullTime, num_pages |-> 0, count |-> 0, page1 |-> <<>>,
          rest |-> <<>>, order |-> <<>>, by |-> "-"]

-----------------------------------------------------------------------------
(* The Credential Manager.                                                 *)

CurrentCredential ==
  [accessToken |-> accessToken,
   refreshToken |-> refreshToken,
   accessTokenExpiry |-> accessTokenExpiry,
   refreshTokenExpiry |-> refreshTokenExpiry]

SetCred(c) ==
  /\ accessToken' = c.accessToken
  /\ refreshToken' = c.refreshToken
  /\ accessTokenExpiry' = c.accessTokenExpiry
  /\ refreshTokenExpiry' = c.refreshTokenExpiry

\* getAuthTokens / refreshAccessToken: response.data && response.data.access_token
AuthSucceeds(r) == r.type = "ok" /\ r.access_token # NULL

\* Mutant of AuthCredential: the refresh token's expiry is not renewed.
AuthCredential_KeepsRefreshExpiry(r) ==
  IF AuthSucceeds(r)
  THEN [accessToken |-> r.access_token,
        refreshToken |-> r.refresh_token,
        accessTokenExpiry |-> now + ACCESS_LIFE,
        refreshTokenExpiry |-> refreshTokenExpiry]
  ELSE CurrentCredential

\* Mutant of AuthCredential: a failed authentication clears the credential.
AuthCredential_ClearsOnFailure(r) ==
  IF AuthSucceeds(r)
  THEN [accessToken |-> r.access_token,
        refreshToken |-> r.refresh_token,
        accessTokenExpiry |-> now + ACCESS_LIFE,
        refreshTokenExpiry |-> now + REFRESH_LIFE]
  ELSE [accessToken |-> NULL, refreshToken |-> NULL,
        accessTokenExpiry |-> NullTime, refreshTokenExpiry |-> NullTime]

\* getAuthTokens: the four assignments after a good response; a bad one throws
\* before any assignment.
AuthCredential(r) ==
  IF AuthSucceeds(r)
  THEN [accessToken |-> r.access_token,
        refreshToken |-> r.refresh_token,
        accessTokenExpiry |-> now + ACCESS_LIFE,
        refreshTokenExpiry |-> now + REFRESH_LIFE]
  ELSE CurrentCredential

\* Mutant of RefreshCredential: a refresh renews the refresh token's expiry too.
RefreshCredential_RenewsRefreshExpiry(r) ==
  IF AuthSucceeds(r)
  THEN [accessToken |-> r.access_token,
        refreshToken |-> refreshToken,
        accessTokenExpiry |-> now + ACCESS_LIFE,
        refreshTokenExpiry |-> now + REFRESH_LIFE]
  ELSE CurrentCredential

\* refreshAccessToken: the two assignments after a good response; a bad one
\* throws before any assignment.
RefreshCredential(r) ==
  IF AuthSucceeds(r)
  THEN [accessToken |-> r.access_token,
        refreshToken |-> refreshToken,
        accessTokenExpiry |-> now + ACCESS_LIFE,
        refreshTokenExpiry |-> refreshTokenExpiry]
  ELSE CurrentCredential

\* The status of the error getAuthTokens throws: the upstream error's, or
\* none for new Error("Authentication failed: No access token").
AuthErrorStatus(r) == IF r.type = "err" THEN r.status ELSE 0

\* ensureToken: the if / else if / else if chain
EnsureDecision ==
  IF accessToken = NULL \/ refreshToken = NULL THEN "authenticate"
  ELSE IF now > accessTokenExpiry /\ now < refreshTokenExpiry THEN "refresh"
  ELSE IF now > refreshTokenExpiry THEN "authenticate"
  ELSE "none"

\* refreshAccessToken's catch block: does it fall back to getAuthTokens()?
\* server.js asks whether the refresh token is still valid; part_000 does not.
RefreshFallsBack ==
  IF build = "server" THEN now < refreshTokenExpiry ELSE TRUE

\* const isCacheValid = cachedJobs.length > 0 && cacheTimestamp &&
\*                      Date.now() - cacheTimestamp < CACHE_DURATION
IsCacheValid ==
  /\ Len(cachedJobs) > 0
  /\ cacheTimestamp # NullTime
  /\ now - cacheTimestamp < CACHE_DURATION

\* res.json / res.redirect / res.status(500).json: the flow ends.
Respond(p, resp) ==
  [IdleProc EXCEPT !.pc = "done", !.req = p.req, !.mw = p.mw, !.resp = resp]

\* The route's response from the list allJobs; total is totalJobCount as the
\* handler reads it.
RouteBody(req, allJobs, total) ==
  IF req.route = "jobs" THEN ListPageBody(allJobs, req.page)
  ELSE SearchBody(allJobs, req.query, req.location, req.limit, total)

\* Mutant of AllJobsIsCachedJobs: the fall-back works on cachedJobs too.
AllJobsIsCachedJobs_Always(kind) == TRUE

\* The array a handler's allJobs names when it answers: cachedJobs itself
\* after "allJobs = cachedJobs" and after fetchAllJobsAndUpdateCache returned
\* the array it had just published; the results of its own response in the
\* fall-back.
AllJobsIsCachedJobs(kind) == kind \in {"cache", "fetched"}

\* The handler changes allJobs in place: only the sort of the search's
\* fall-back does; slice and filter return new arrays.
SortsAllJobs(req, kind) == req.route = "search" /\ kind = "single"

\* The array cachedJobs names once the handler of flow q has run to its
\* answer (or to its next await), when it named the list published.
CachedJobsAfter(q, published) ==
  IF /\ q.pc = "done"
     /\ AllJobsIsCachedJobs(q.resp.kind)
     /\ SortsAllJobs(q.req, q.resp.kind)
  THEN SortByCreated(published)
  ELSE published

\* Mutant of RouteStart: the cache is never read.
RouteStart_IgnoresCache(p) ==
  IF p.req.route = "search" /\ p.req.query = <<>> /\ p.req.location = <<>>
  THEN Respond(p, Redirect(JobsReq(1)))
  ELSE [p EXCEPT !.pc = "page1"]

\* Mutant of RouteStart: a search without terms is answered as a search.
RouteStart_SearchesWithoutTerms(p) ==
  IF IsCacheValid
  THEN Respond(p, Json("cache", RouteBody(p.req, cachedJobs, totalJobCount)))
  ELSE [p EXCEPT !.pc = "page1"]

\* Mutant of RouteStart: a read waits for a bulk fetch that is in flight.
RouteStart_JoinsFetch(p) ==
  IF p.req.route = "search" /\ p.req.query = <<>> /\ p.req.location = <<>>
  THEN Respond(p, Redirect(JobsReq(1)))
  ELSE IF IsCacheValid /\ \A q \in Procs : proc[q].pc \notin {"page1", "pages"}
  THEN Respond(p, Json("cache", RouteBody(p.req, cachedJobs, totalJobCount)))
  ELSE [p EXCEPT !.pc = "page1"]

\* The route handler up to its first await, run by next(): the redirect of a
\* search without terms, the answer from a valid cache, or the first request
\* of fetchAllJobsAndUpdateCache.
RouteStart(p) ==
  IF p.req.route = "search" /\ p.req.query = <<>> /\ p.req.location = <<>>
  THEN Respond(p, Redirect(JobsReq(1)))
  ELSE IF IsCacheValid
  THEN Respond(p, Json("cache", RouteBody(p.req, cachedJobs, totalJobCount)))
  ELSE [p EXCEPT !.pc = "page1"]

\* ensureToken after its awaited call: next() on success, the catch block on
\* failure.
EnsureContinue(p, ok) ==
  IF ok
  THEN RouteStart([p EXCEPT !.ctx = "-", !.mw = "next"])
  ELSE Respond([p EXCEPT !.mw = "error"], AuthErrorResp)

\* A request arrives and ensureToken runs up to its first await.
EnsureToken(r, q) ==
  /\ listening
  /\ proc[r].pc \in {"idle", "done"}
  /\ LET p0 == [IdleProc EXCEPT !.req = q, !.mw = "pending"]
     IN proc' = [proc EXCEPT ![r] =
          CASE EnsureDecision = "authenticate" ->
                 [p0 EXCEPT !.pc = "auth", !.ctx = "ensure"]
            [] EnsureDecision = "refresh" ->
                 [p0 EXCEPT !.pc = "refresh", !.ctx = "ensure",
                            !.session = refreshTokenExpiry]
            [] OTHER -> EnsureContinue(p0, TRUE)]
  /\ cachedJobs' = CachedJobsAfter(proc'[r], cachedJobs)
  /\ last' = [Step("ensureToken", r, NoUpstream) EXCEPT !.ctx = "-"]
  /\ UNCHANGED <<build, listening, now, cred, totalJobCount, cacheTimestamp,
                 totalPages, timers, pub>>

\* createAuthtoken answers a getAuthTokens() that ensureToken awaits (called
\* directly or through refreshAccessToken's fallback).
AuthResponseEnsure(r, resp) ==
  /\ proc[r].pc = "auth" /\ proc[r].ctx = "ensure"
  /\ SetCred(AuthCredential(resp))
  /\ proc' = [proc EXCEPT ![r] = EnsureContinue(@, AuthSucceeds(resp))]
  /\ cachedJobs' = CachedJobsAfter(proc'[r], cachedJobs)
  /\ last' = Step("getAuthTokens", r, resp)
  /\ UNCHANGED <<build, listening, now, totalJobCount, cacheTimestamp,
                 totalPages, timers, pub>>

\* refreshToken answers the refreshAccessToken() that ensureToken awaits.
RefreshResponse(r, resp) ==
  /\ proc[r].pc = "refresh"
  /\ SetCred(RefreshCredential(resp))
  /\ LET q == [proc[r] EXCEPT !.session = NullTime]
     IN proc' = [proc EXCEPT ![r] =
          IF AuthSucceeds(resp) THEN EnsureContinue(q, TRUE)
          ELSE IF RefreshFallsBack THEN [q EXCEPT !.pc = "auth"]
          ELSE EnsureContinue(q, FALSE)]
  /\ cachedJobs' = CachedJobsAfter(proc'[r], cachedJobs)
  /\ last' = Step("refreshAccessToken", r, resp)
  /\ UNCHANGED <<build, listening, now, totalJobCount, cacheTimestamp,
                 totalPages, timers, pub>>

\* app.listen's callback; part_000 starts the initial token fetch in it.
Listen ==
  /\ ~listening
  /\ listening' = TRUE
  /\ proc' = IF build = "part000"
             THEN [proc EXCEPT !["startup"] = [@ EXCEPT !.pc = "auth", !.ctx = "bg"]]
             ELSE proc
  /\ last' = Step("listen", "startup", NoUpstream)
  /\ UNCHANGED <<build, now, cred, cache, timers, pub>>

\* part_000: the scheduled token refresh fires when it is due.
TokenTimer ==
  /\ build = "part000"
  /\ now = tokenTimerDue
  /\ proc["tokenTimer"].pc = "idle"
  /\ proc' = [proc EXCEPT !["tokenTimer"] = [@ EXCEPT !.pc = "auth", !.ctx = "bg"]]
  /\ tokenTimerDue' = now + TOKEN_REFRESH_INTERVAL
  /\ last' = Step("tokenTimer", "tokenTimer", NoUpstream)
  /\ UNCHANGED <<build, listening, now, cred, cache, cacheTimerDue, pub>>

\* Mutant of AuthResponseBackground: the rejection of a failed
\* getAuthTokens() is not caught and ends the process.
AuthResponseBackground_Uncaught(p, resp) ==
  /\ p \in Background
  /\ proc[p].pc = "auth" /\ proc[p].ctx = "bg"
  /\ SetCred(AuthCredential(resp))
  /\ proc' = [proc EXCEPT ![p] = IdleProc]
  /\ listening' = AuthSucceeds(resp)
  /\ last' = Step("getAuthTokens", p, resp)
  /\ UNCHANGED <<build, now, cache, timers, pub>>

\* createAuthtoken answers the start-up fetch or the scheduled refresh; both
\* only log the outcome.
AuthResponseBackground(p, resp) ==
  /\ p \in Background
  /\ proc[p].pc = "auth" /\ proc[p].ctx = "bg"
  /\ SetCred(AuthCredential(resp))
  /\ proc' = [proc EXCEPT ![p] = IdleProc]
  /\ last' = Step("getAuthTokens", p, resp)
  /\ UNCHANGED <<build, listening, now, cache, timers, pub>>

\* The first firing at or after instant t of a timer of the given period
\* that is next due at instant due.
NextDue(due, period, t) ==
  IF t <= due THEN due
  ELSE due + ((t - due + period - 1) \div period) * period

\* The clock moves on by d. A timer that is due fires first. A step across
\* scheduled refreshes stands for a period in which each of them was
\* answered with an error that changes nothing (part_000, 534-554).
Tick(d) ==
  /\ listening
  /\ build = "part000" =>
       /\ now < tokenTimerDue
       /\ now < cacheTimerDue
       /\ now + d > tokenTimerDue => proc["tokenTimer"].pc = "idle"
       /\ now + d > cacheTimerDue => proc["cacheTimer"].pc = "idle"
  /\ now' = now + d
  /\ tokenTimerDue' = IF build = "part000"
                      THEN NextDue(tokenTimerDue, TOKEN_REFRESH_INTERVAL, now + d)
                      ELSE tokenTimerDue
  /\ cacheTimerDue' = IF build = "part000"
                      THEN NextDue(cacheTimerDue, CACHE_REFRESH_INTERVAL, now + d)
                      ELSE cacheTimerDue
  /\ UNCHANGED <<build, listening, cred, cache, proc, pub>>
  /\ last' = Step("tick", "-", NoUpstream)

-----------------------------------------------------------------------------
(* The upstream job listing.                                               *)

JA == Job("a", 3, <<"A">>, <<"X">>)
JB == Job("b", 5, <<"b">>, NULL)
JC == Job("c", 0, <<"C", "a">>, NULL)

\* What upstream can answer to a request for one page: a body (with or
\* without results) or an error with or without a response. The listing has
\* one or two pages when the request is made, and num_pages and count of a
\* body are never 0.
PageErrStatuses == {0, 401, 403}
PageBody(results, num_pages, count) ==
  [type |-> "ok", status |-> 200, has_results |-> TRUE, results |-> results,
   num_pages |-> num_pages, count |-> count]
PageError(status) ==
  [type |-> "err", status |-> status, has_results |-> FALSE, results |-> <<>>,
   num_pages |-> 0, count |-> 0]
PageResponses(k) ==
  (IF k = 1
   THEN {PageBody(<<JA>>, n, n) : n \in 1..MaxPages}
        \cup {[PageBody(<<>>, 1, 1) EXCEPT !.has_results = FALSE]}
   ELSE {PageBody(<<JB>>, MaxPages, MaxPages)})
  \cup {PageError(s) : s \in PageErrStatuses}

\* response.data && response.data.results
HasResults(r) == r.type = "ok" /\ r.has_results

\* The statuses the catch blocks take for an authentication error.
AuthStatuses == IF build = "server" THEN {401} ELSE {401, 403}

-----------------------------------------------------------------------------
(* fetchAllJobsAndUpdateCache and the two routes.                          *)

RECURSIVE Concat(_)
Concat(ss) == IF ss = <<>> THEN <<>> ELSE Head(ss) \o Concat(Tail(ss))

\* Mutant of Assemble: the pages after the first are left out.
Assemble_FirstPageOnly(page1, rest) == SortByCreated(page1)

\* allJobs of a fetch whose pages have all been answered: page 1, then the
\* other pages in page order, sorted.
Assemble(page1, rest) ==
  SortByCreated(page1 \o Concat([k \in 1..Len(rest) |-> rest[k].results]))

\* Mutant of Gathered: the responses stand in the order they arrived in.
Gathered_CompletionOrder(rest, order) == [i \in 1..Len(order) |-> rest[order[i]]]

\* await Promise.all(pagePromises): the responses in the order of the
\* promises, that is by page number, whatever order they arrived in.
Gathered(rest, order) == rest

\* cachedJobs = allJobs; cacheTimestamp = Date.now(); the caller q then
\* works on the array returned to it, which is the one published.
Publish(allJobs, record, q) ==
  /\ cachedJobs' = CachedJobsAfter(q, allJobs)
  /\ cacheTimestamp' = now
  /\ pub' = record

\* Mutant of RouteCatch: an error that is no authentication error is only
\* logged.
RouteCatch_NoAnswer(p, status) ==
  IF status \in AuthStatuses
  THEN [p EXCEPT !.pc = "auth", !.ctx = "route", !.err = status,
                 !.reauth = @ + 1]
  ELSE [p EXCEPT !.pc = "logged"]

\* The catch block of a route: an authentication error asks for new tokens,
\* any other is answered with status 500.
RouteCatch(p, status) ==
  IF status \in AuthStatuses
  THEN [p EXCEPT !.pc = "auth", !.ctx = "route", !.err = status,
                 !.reauth = @ + 1]
  ELSE Respond(p, RouteErrorResp)

\* fetchAllJobsAndUpdateCache returns allJobs to its caller: the route
\* answers from it, the timer logs.
FetchReturn(p, by, allJobs, total) ==
  IF by \in Background THEN IdleProc
  ELSE Respond(p, Json("fetched", RouteBody(p.req, allJobs, total)))

\* Mutant of FetchFailed: the error of a scheduled refresh is not caught.
FetchFailed_StopsTimer(p, by, status) ==
  IF by \in Background THEN [p EXCEPT !.pc = "crashed"]
  ELSE [p EXCEPT !.pc = "single", !.ctx = "-", !.err = status]

\* fetchAllJobsAndUpdateCache throws to its caller: the route sends its
\* fall-back request for a single page, the timer logs.
FetchFailed(p, by, status) ==
  IF by \in Background THEN IdleProc
  ELSE [p EXCEPT !.pc = "single", !.ctx = "-", !.err = status]

\* The catch block of fetchAllJobsAndUpdateCache: part_000 asks for new
\* tokens on an authentication error, otherwise the error is thrown on.
FetchCatch(p, by, status) ==
  IF build = "part000" /\ status \in AuthStatuses
  THEN [p EXCEPT !.pc = "auth", !.ctx = "fetch", !.err = status,
                 !.reauth = @ + 1]
  ELSE FetchFailed(p, by, status)

\* firstPageResponse.data.num_pages / .count replace the totals when truthy.
Truthy(n, old) == IF n # 0 THEN n ELSE old

\* Upstream answers the request for page 1.
Page1Response(p, resp) ==
  /\ proc[p].pc = "page1"
  /\ IF resp.type = "err"
     THEN /\ proc' = [proc EXCEPT ![p] = FetchCatch(@, p, resp.status)]
          /\ UNCHANGED <<cache, pub>>
     ELSE LET pages == Truthy(resp.num_pages, totalPages)
              total == Truthy(resp.count, totalJobCount)
              page1 == IF resp.has_results THEN resp.results ELSE <<>>
              first == [num_pages |-> resp.num_pages, count |-> resp.count]
          IN /\ totalPages' = pages
             /\ totalJobCount' = total
             /\ IF pages < 2
                THEN /\ Publish(Assemble(page1, <<>>),
                                [at |-> now, num_pages |-> first.num_pages,
                                 count |-> first.count, page1 |-> page1,
                                 rest |-> <<>>, order |-> <<>>, by |-> p],
                                FetchReturn(proc[p], p, Assemble(page1, <<>>), total))
                     /\ proc' = [proc EXCEPT ![p] =
                          FetchReturn(@, p, Assemble(page1, <<>>), total)]
                ELSE /\ proc' = [proc EXCEPT ![p] =
                          [@ EXCEPT !.pc = "pages", !.acc = page1, !.first = first,
                                    !.rest = [k \in 1..(pages - 1) |->
                                               [done |-> FALSE, results |-> <<>>]]]]
                     /\ UNCHANGED <<cachedJobs, cacheTimestamp, pub>>
  /\ last' = Step("page1", p, NoUpstream)
  /\ UNCHANGED <<build, listening, now, cred, timers>>

\* Upstream answers the request for page k + 1 (an error counts as a page
\* without records); the answer that completes Promise.all is followed by
\* the assembly, the sort and the publication.
PageResponse(p, k, resp) ==
  /\ proc[p].pc = "pages"
  /\ k \in 1..Len(proc[p].rest)
  /\ ~proc[p].rest[k].done
  /\ LET results == IF HasResults(resp) THEN resp.results ELSE <<>>
         rest == [proc[p].rest EXCEPT ![k] = [done |-> TRUE, results |-> results]]
         order == Append(proc[p].order, k)
         allJobs == Assemble(proc[p].acc, Gathered(rest, order))
     IN IF \A j \in 1..Len(rest) : rest[j].done
        THEN /\ Publish(allJobs,
                        [at |-> now, num_pages |-> proc[p].first.num_pages,
                         count |-> proc[p].first.count, page1 |-> proc[p].acc,
                         rest |-> [j \in 1..Len(rest) |-> rest[j].results],
                         order |-> order, by |-> p],
                        FetchReturn(proc[p], p, allJobs, totalJobCount))
             /\ proc' = [proc EXCEPT ![p] =
                  FetchReturn(@, p, allJobs, totalJobCount)]
        ELSE /\ proc' = [proc EXCEPT ![p] =
                  [@ EXCEPT !.rest = rest, !.order = order]]
             /\ UNCHANGED <<cachedJobs, cacheTimestamp, pub>>
  /\ last' = Step("page", p, NoUpstream)
  /\ UNCHANGED <<build, listening, now, cred, totalPages, totalJobCount, timers>>

\* part_000: createAuthtoken answers the getAuthTokens() of the fetch's catch
\* block; a failure is thrown out of the fetch, a success retries page 1.
AuthResponseFetch(p, resp) ==
  /\ proc[p].pc = "auth" /\ proc[p].ctx = "fetch"
  /\ SetCred(AuthCredential(resp))
  /\ proc' = [proc EXCEPT ![p] =
       IF AuthSucceeds(resp) THEN [@ EXCEPT !.pc = "retry1"]
       ELSE FetchFailed(@, p, AuthErrorStatus(resp))]
  /\ last' = Step("getAuthTokens", p, resp)
  /\ UNCHANGED <<build, listening, now, cache, timers, pub>>

\* part_000: upstream answers the retry of page 1; its results are published
\* as they are, anything else throws the original error.
RetryResponse(p, resp) ==
  /\ proc[p].pc = "retry1"
  /\ IF HasResults(resp)
     THEN /\ Publish(resp.results,
                     [at |-> now, num_pages |-> resp.num_pages,
                      count |-> resp.count, page1 |-> resp.results,
                      rest |-> <<>>, order |-> <<>>, by |-> p],
                     FetchReturn(proc[p], p, resp.results, totalJobCount))
          /\ proc' = [proc EXCEPT ![p] =
               FetchReturn(@, p, resp.results, totalJobCount)]
     ELSE /\ proc' = [proc EXCEPT ![p] = FetchFailed(@, p, proc[p].err)]
          /\ UNCHANGED <<cachedJobs, cacheTimestamp, pub>>
  /\ last' = Step("retry1", p, NoUpstream)
  /\ UNCHANGED <<build, listening, now, cred, totalPages, totalJobCount, timers>>

\* The page a route asks for when the fetch has failed.
SinglePage(req) == IF req.route = "jobs" THEN req.page ELSE 1

\* The error the route's catch block receives when the single page fails:
\* server.js lets the page's error through, part_000 throws the fetch's.
SingleError(p, resp) == IF build = "server" THEN resp.status ELSE p.err

\* Mutant of SingleResponse: the page the fall-back received is published.
SingleResponse_PublishesPage(p, resp) ==
  /\ proc[p].pc = "single"
  /\ LET q == proc[p]
         allJobs == IF resp.has_results THEN SortByCreated(resp.results) ELSE <<>>
     IN proc' = [proc EXCEPT ![p] =
          IF resp.type = "err" THEN RouteCatch(q, SingleError(q, resp))
          ELSE IF q.req.route = "search"
          THEN Respond(q, Json("single", RouteBody(q.req, allJobs, totalJobCount)))
          ELSE IF resp.has_results
          THEN Respond(q, Json("single",
                               [NoBody EXCEPT !.count = resp.count,
                                              !.num_pages = resp.num_pages,
                                              !.results = resp.results,
                                              !.warning = TRUE]))
          ELSE RouteCatch(q, q.err)]
  /\ IF HasResults(resp)
     THEN cachedJobs' = resp.results /\ cacheTimestamp' = now
     ELSE UNCHANGED <<cachedJobs, cacheTimestamp>>
  /\ last' = Step("single", p, NoUpstream)
  /\ UNCHANGED <<build, listening, now, cred, totalJobCount, totalPages,
                 timers, pub>>

\* Upstream answers the fall-back request of a route.
SingleResponse(p, resp) ==
  /\ proc[p].pc = "single"
  /\ LET q == proc[p]
         allJobs == IF resp.has_results THEN SortByCreated(resp.results) ELSE <<>>
     IN proc' = [proc EXCEPT ![p] =
          IF resp.type = "err" THEN RouteCatch(q, SingleError(q, resp))
          ELSE IF q.req.route = "search"
          THEN Respond(q, Json("single", RouteBody(q.req, allJobs, totalJobCount)))
          ELSE IF resp.has_results
          THEN Respond(q, Json("single",
                               [NoBody EXCEPT !.count = resp.count,
                                              !.num_pages = resp.num_pages,
                                              !.results = resp.results,
                                              !.warning = TRUE]))
          ELSE RouteCatch(q, q.err)]
  /\ cachedJobs' = CachedJobsAfter(proc'[p], cachedJobs)
  /\ last' = Step("single", p, NoUpstream)
  /\ UNCHANGED <<build, listening, now, cred, totalJobCount, cacheTimestamp,
                 totalPages, timers, pub>>

\* The request the redirect of a route's catch block names: server.js sends
\* a list request to "/api/jobs" without its query string, every other
\* redirect repeats the query string of the request.
RetryTarget(req) ==
  IF build = "server" /\ req.route = "jobs" THEN JobsReq(1) ELSE req

\* createAuthtoken answers the getAuthTokens() of a route's catch block: a
\* redirect on success, status 500 on failure.
AuthResponseRoute(p, resp) ==
  /\ proc[p].pc = "auth" /\ proc[p].ctx = "route"
  /\ SetCred(AuthCredential(resp))
  /\ proc' = [proc EXCEPT ![p] =
       Respond(@, IF AuthSucceeds(resp) THEN Redirect(RetryTarget(proc[p].req))
                  ELSE RouteErrorResp)]
  /\ last' = Step("getAuthTokens", p, resp)
  /\ UNCHANGED <<build, listening, now, cache, timers, pub>>

\* part_000: the scheduled cache refresh fires when it is due and calls
\* fetchAllJobsAndUpdateCache (without ensureToken).
CacheTimer ==
  /\ build = "part000"
  /\ now = cacheTimerDue
  /\ proc["cacheTimer"].pc = "idle"
  /\ proc' = [proc EXCEPT !["cacheTimer"] = [@ EXCEPT !.pc = "page1"]]
  /\ cacheTimerDue' = now + CACHE_REFRESH_INTERVAL
  /\ last' = Step("cacheTimer", "cacheTimer", NoUpstream)
  /\ UNCHANGED <<build, listening, now, cred, cache, tokenTimerDue, pub>>

-----------------------------------------------------------------------------
(* Spec: the Credential Manager under two concurrent requests, beside the  *)
(* start-up fetch and the token timer of part_000; the clock moves in      *)
(* steps of 6 hours or of 6.5 days.                                        *)

Init ==
  /\ build \in Builds
  /\ listening = FALSE
  /\ now = StartTime
  /\ accessToken = NULL
  /\ refreshToken = NULL
  /\ accessTokenExpiry = NullTime
  /\ refreshTokenExpiry = NullTime
  /\ cachedJobs = <<>>
  /\ totalJobCount = DEFAULT_TOTAL_JOBS
  /\ cacheTimestamp = NullTime
  /\ totalPages = DEFAULT_TOTAL_PAGES
  /\ tokenTimerDue = StartTime + TOKEN_REFRESH_INTERVAL
  /\ cacheTimerDue = StartTime + CACHE_REFRESH_INTERVAL
  /\ proc = [p \in Procs |-> IdleProc]
  /\ pub = NoPub
  /\ last = [op |-> "init", p |-> "-", resp |-> NoUpstream, after |-> FALSE,
             ctx |-> "-", inflight |-> <<>>, overtaken |-> {}]

\* Requests that leave the job cache alone: a search without terms.
CredReqs == {SearchReq(<<>>, <<>>, DEFAULT_LIMIT)}

ShortStep == TOKEN_REFRESH_INTERVAL \div 2
LongStep == REFRESH_LIFE - TOKEN_REFRESH_INTERVAL
CredSteps == {ShortStep, LongStep}

\* The number of clock steps taken so far (LongStep is 26 ShortSteps).
TicksTaken ==
  LET n == (now - StartTime) \div ShortStep
  IN (n \div (LongStep \div ShortStep)) + (n % (LongStep \div ShortStep))

\* No upstream call is awaited over a long step: an answer takes hours at
\* most, not days.
TickCred ==
  /\ TicksTaken < MaxCredTicks
  /\ \E d \in CredSteps :
       /\ d = LongStep => \A p \in Procs : proc[p].pc \in {"idle", "done"}
       /\ Tick(d)

Next ==
  \/ Listen
  \/ TickCred
  \/ TokenTimer
  \/ \E r \in Requests, q \in CredReqs : EnsureToken(r, q)
  \/ \E r \in Requests, resp \in AuthResponses : AuthResponseEnsure(r, resp)
  \/ \E r \in Requests, resp \in RefreshResponses : RefreshResponse(r, resp)
  \/ \E p \in Background, resp \in AuthResponses : AuthResponseBackground(p, resp)

Spec == Init /\ [][Next]_vars

-----------------------------------------------------------------------------
(* SpecCache: the job cache over its first half hour, under two            *)
(* concurrent requests and, in part_000, the cache timer. The credential   *)
(* stays fresh over that time; the token endpoint answers with a token or  *)
(* with status 401.                                                        *)

\* The first flow is a list request, the second a search.
CacheReqs(r) ==
  IF r = "r1" THEN {JobsReq(1)} ELSE {SearchReq(<<"a">>, <<>>, DEFAULT_LIMIT)}

CacheAuthResponses ==
  {r \in AuthResponses : r.access_token \in {"A1", NULL} /\ r.status \in {200, 401}
                         /\ (r.type = "ok" => AuthSucceeds(r))}

\* The clock moves on to the next scheduled cache refresh or by the cache's
\* lifetime. No upstream call is awaited over a clock step: an answer
\* arrives within minutes of its request.
CacheSteps == {CACHE_REFRESH_INTERVAL, CACHE_DURATION}

TickCache ==
  /\ \A p \in Procs : proc[p].pc \in {"idle", "done"}
  /\ \E d \in CacheSteps :
       /\ now + d <= StartTime + MaxCacheTime
       /\ Tick(d)

CacheNext ==
  \/ Listen
  \/ TickCache
  \/ CacheTimer
  \/ \E r \in Requests : \E q \in CacheReqs(r) : EnsureToken(r, q)
  \/ \E r \in Requests, resp \in CacheAuthResponses : AuthResponseEnsure(r, resp)
  \/ \E p \in Background, resp \in CacheAuthResponses : AuthResponseBackground(p, resp)
  \/ \E p \in Procs, resp \in PageResponses(1) : Page1Response(p, resp)
  \/ \E p \in Procs, k \in 1..(MaxPages - 1), resp \in PageResponses(2) :
       PageResponse(p, k, resp)
  \/ \E p \in Procs, resp \in CacheAuthResponses : AuthResponseFetch(p, resp)
  \/ \E p \in Procs, resp \in PageResponses(1) : RetryResponse(p, resp)
  \/ \E p \in Requests, resp \in PageResponses(1) : SingleResponse(p, resp)
  \/ \E p \in Requests, resp \in CacheAuthResponses : AuthResponseRoute(p, resp)

SpecCache == Init /\ [][CacheNext]_vars

-----------------------------------------------------------------------------
(* SpecFetch: one list request and its bulk fetch over a listing of up to  *)
(* three pages, every page answered with its records or with an error     *)
(* (upstream lists oldest first); the clock stands still.                  *)

FetchResponses(k) ==
  (IF k = 1 THEN {PageBody(<<JA>>, n, n) : n \in 1..MaxFetchPages}
                  \cup {PageBody(<<JA, JB>>, 1, 2)}
   ELSE IF k = 2 THEN {PageBody(<<JB>>, MaxFetchPages, MaxFetchPages)}
   ELSE {PageBody(<<JC>>, MaxFetchPages, MaxFetchPages)})
  \cup {PageError(s) : s \in PageErrStatuses}

FetchNext ==
  \/ Listen
  \/ EnsureToken("r1", JobsReq(1))
  \/ \E resp \in CacheAuthResponses : AuthResponseEnsure("r1", resp)
  \/ \E resp \in CacheAuthResponses : AuthResponseBackground("startup", resp)
  \/ \E resp \in FetchResponses(1) : Page1Response("r1", resp)
  \/ \E k \in 1..(MaxFetchPages - 1) : \E resp \in FetchResponses(k + 1) :
       PageResponse("r1", k, resp)
  \/ \E resp \in CacheAuthResponses : AuthResponseFetch("r1", resp)
  \/ \E resp \in FetchResponses(1) : RetryResponse("r1", resp)
  \/ \E resp \in FetchResponses(1) : SingleResponse("r1", resp)
  \/ \E resp \in CacheAuthResponses : AuthResponseRoute("r1", resp)

SpecFetch == Init /\ [][FetchNext]_vars

-----------------------------------------------------------------------------
(* SpecRoutes: the two routes answering from a valid cache. The server     *)
(* starts with a fresh credential and a snapshot just published by a fetch *)
(* of one page; the requests range over page numbers, search terms and     *)
(* limits; the clock stands still.                                         *)

\* A listing of n records, newest first.
Listing(n) == [i \in 1..n |-> Job("n", n + 1 - i, <<"b">>, NULL)]

JM == [Job("m", 7, <<"a">>, NULL) EXCEPT !.zip_code = <<"M", "5">>]
JX == [Job("x", 6, <<"b">>, <<"a">>) EXCEPT !.country = <<"X">>, !.skills = <<"A">>]

Snapshots ==
  {Listing(n) : n \in {1, PAGE_SIZE, PAGE_SIZE + 1, MaxListing}}
  \cup {<<JM, JX, JB, JA, JC>>}

RouteReqs ==
  {JobsReq(page) : page \in -1..MaxRoutePage}
  \cup {SearchReq(query, location, limit) :
          query \in {<<>>, <<"a">>, <<"B">>},
          location \in {<<>>, <<"x">>, <<"m">>, <<"M">>},
          limit \in 1..MaxSmallLimit \cup {DEFAULT_LIMIT}}

InitRoutes ==
  /\ build \in Builds
  /\ listening = TRUE
  /\ now = StartTime
  /\ accessToken = "A1"
  /\ refreshToken = "R1"
  /\ accessTokenExpiry = StartTime + ACCESS_LIFE
  /\ refreshTokenExpiry = StartTime + REFRESH_LIFE
  /\ cachedJobs \in Snapshots
  /\ totalJobCount = Len(cachedJobs)
  /\ cacheTimestamp = StartTime
  /\ totalPages = 1
  /\ tokenTimerDue = StartTime + TOKEN_REFRESH_INTERVAL
  /\ cacheTimerDue = StartTime + CACHE_REFRESH_INTERVAL
  /\ proc = [p \in Procs |-> IdleProc]
  /\ pub = [at |-> StartTime, num_pages |-> 1, count |-> Len(cachedJobs),
            page1 |-> cachedJobs, rest |-> <<>>, order |-> <<>>,
            by |-> "r1"]
  /\ last = [op |-> "page1", p |-> "r1", resp |-> NoUpstream, after |-> FALSE,
             ctx |-> "-", inflight |-> <<>>, overtaken |-> {}]

RoutesNext == \E q \in RouteReqs : EnsureToken("r1", q)

SpecRoutes == InitRoutes /\ [][RoutesNext]_vars


-----------------------------------------------------------------------------
(* SpecForeground: one request flow from its arrival to its response, over *)
(* both routes and every upstream answer, with an empty cache and, a day   *)
(* later, with a stale one and an access token to refresh.                 *)
(* SpecForegroundLive adds that upstream answers every call it is sent:    *)
(* the event loop runs the continuation of an await once the answer is in. *)

ForegroundReqs ==
  {JobsReq(1), JobsReq(2), SearchReq(<<"a">>, <<>>, DEFAULT_LIMIT),
   SearchReq(<<>>, <<>>, DEFAULT_LIMIT)}

ForegroundRefreshResponses ==
  {r \in RefreshResponses : r.access_token \in {"A1", NULL} /\ r.status \in {200, 401}
                            /\ (r.type = "ok" => AuthSucceeds(r))}

\* The clock moves on once, past the access token's expiry, while nothing
\* is awaited.
TickForeground ==
  /\ now = StartTime
  /\ \A p \in Procs : proc[p].pc \in {"idle", "done"}
  /\ Tick(ACCESS_LIFE + 1)

\* Upstream answers the call flow r awaits.
Answer(r) ==
  \/ \E resp \in CacheAuthResponses : AuthResponseEnsure(r, resp)
  \/ \E resp \in ForegroundRefreshResponses : RefreshResponse(r, resp)
  \/ \E resp \in FetchResponses(1) : Page1Response(r, resp)
  \/ \E k \in 1..(MaxFetchPages - 1) : \E resp \in FetchResponses(k + 1) :
       PageResponse(r, k, resp)
  \/ \E resp \in CacheAuthResponses : AuthResponseFetch(r, resp)
  \/ \E resp \in FetchResponses(1) : RetryResponse(r, resp)
  \/ \E resp \in FetchResponses(1) : SingleResponse(r, resp)
  \/ \E resp \in CacheAuthResponses : AuthResponseRoute(r, resp)

ForegroundNext ==
  \/ Listen
  \/ TickForeground
  \/ \E q \in ForegroundReqs : EnsureToken("r1", q)
  \/ \E resp \in CacheAuthResponses : AuthResponseBackground("startup", resp)
  \/ Answer("r1")

SpecForeground == Init /\ [][ForegroundNext]_vars

SpecForegroundLive == SpecForeground /\ WF_vars(Answer("r1"))
-----------------------------------------------------------------------------
(* Claims about the Credential Manager, checked under Spec.                *)

\* The upstream credential call an ensureToken call left flow p awaiting.
ActionTaken(p) ==
  CASE p.pc = "auth" -> "authenticate"
    [] p.pc = "refresh" -> "refresh"
    [] OTHER -> "none"

\* The actions the decision table of section 4.1 lists for the current state
\* (at the very instant of an expiry the token counts as expired or as not
\* expired, whichever suits the action).
TableActions ==
  IF accessToken = NULL \/ refreshToken = NULL THEN {"authenticate"}
  ELSE (IF now >= accessTokenExpiry /\ now <= refreshTokenExpiry
          THEN {"refresh"} ELSE {})
       \cup (IF now >= refreshTokenExpiry THEN {"authenticate"} ELSE {})
       \cup (IF now <= accessTokenExpiry THEN {"none"} ELSE {})

\* The step just taken was an ensureToken call deciding (it changes neither
\* the credential nor the clock, so both are still those it decided on).
JustDecided == last.op = "ensureToken"

\* The step just taken made ensureToken call next() for flow last.p.
JustProceeded ==
  /\ last.p \in Requests
  /\ last.op = "ensureToken" \/ last.ctx = "ensure"
  /\ proc[last.p].mw = "next"

\* C1: whatever the credential and the clock, the action an
\* ensureToken call takes is one the decision table lists for that state.
C1_DecisionTable ==
  JustDecided => ActionTaken(proc[last.p]) \in TableActions

\* C2: an ensureToken call made right after another one
\* completed, with a credential held and the clock before access_expiry,
\* makes no upstream call.
C2_CredentialReuse ==
  (JustDecided /\ last.after /\ accessToken # NULL /\ now < accessTokenExpiry)
    => ActionTaken(proc[last.p]) = "none"

\* C3: whenever ensureToken lets a request proceed, a credential
\* is held and the clock is not past its access_expiry.
C3_NeverUsedPastExpiry ==
  JustProceeded => (accessToken # NULL /\ ~(now > accessTokenExpiry))

\* C4: after a successful getAuthTokens the credential holds the two tokens
\* of the upstream response, access_expiry = now + 24 h and
\* refresh_expiry = now + 7 d.
C4_AuthenticateStores ==
  (last.op = "getAuthTokens" /\ AuthSucceeds(last.resp)) =>
    /\ accessToken = last.resp.access_token
    /\ refreshToken = last.resp.refresh_token
    /\ accessTokenExpiry = now + ACCESS_LIFE
    /\ refreshTokenExpiry = now + REFRESH_LIFE

\* C4's case: a re-authentication replaced an aged credential by the response's.
C4_Witness ==
  /\ last.op = "getAuthTokens" /\ AuthSucceeds(last.resp)
  /\ now > StartTime + ACCESS_LIFE
  /\ accessToken = "A2"

\* C5: a failed getAuthTokens leaves the four credential fields as they were,
\* ends its caller with the error (ensureToken answers 500; the start-up
\* fetch and the timer only log) and touches no other flow, so the next
\* ensureToken call decides as the one before did.
C5_FailedAuthKeepsCredential ==
  [][(last'.op = "getAuthTokens" /\ ~AuthSucceeds(last'.resp)) =>
       /\ cred' = cred
       /\ EnsureDecision' = EnsureDecision
       /\ \A p \in Procs \ {last'.p} : proc'[p] = proc[p]
       /\ IF last'.p \in Requests
          THEN /\ proc'[last'.p].pc = "done"
               /\ proc'[last'.p].mw = "error"
               /\ proc'[last'.p].resp = AuthErrorResp
          ELSE proc'[last'.p].pc = "idle"]_vars

\* C5's case: an authentication failed for a request while a credential was
\* held; the credential is still held and the request got the 500.
C5_Witness ==
  /\ last.op = "getAuthTokens" /\ ~AuthSucceeds(last.resp)
  /\ last.p \in Requests
  /\ proc[last.p].resp = AuthErrorResp
  /\ accessToken # NULL

\* C6: a successful upstream refresh stores the response's access token and
\* access_expiry = now + 24 h and leaves refresh_token and refresh_expiry.
C6_RefreshFrame ==
  [][(last'.op = "refreshAccessToken" /\ AuthSucceeds(last'.resp)) =>
       /\ accessToken' = last'.resp.access_token
       /\ accessTokenExpiry' = now + ACCESS_LIFE
       /\ refreshToken' = refreshToken
       /\ refreshTokenExpiry' = refreshTokenExpiry]_vars

\* C6's case: a refresh succeeded and replaced the access token.
C6_Witness ==
  /\ last.op = "refreshAccessToken" /\ AuthSucceeds(last.resp)
  /\ accessToken = last.resp.access_token
  /\ accessTokenExpiry > refreshTokenExpiry

\* C7: when the upstream refresh call fails, refreshAccessToken falls back
\* to getAuthTokens if the clock is before refresh_expiry, and fails without
\* calling getAuthTokens if the clock is past it (at the very instant of
\* refresh_expiry either will do).
C7_RefreshFailure ==
  (last.op = "refreshAccessToken" /\ ~AuthSucceeds(last.resp)) =>
    /\ now < refreshTokenExpiry => proc[last.p].pc = "auth"
    /\ now > refreshTokenExpiry =>
         proc[last.p].pc = "done" /\ proc[last.p].mw = "error"

\* C8: at most one authenticate / refresh upstream call is in
\* flight at any time.
C8_SingleFlight ==
  Cardinality({p \in Procs : proc[p].pc \in {"auth", "refresh"}}) <= 1
-----------------------------------------------------------------------------
(* Claims about the Job Cache, checked under SpecCache.                    *)

\* The records of a list, counted.
Records(s) == [j \in {s[i] : i \in 1..Len(s)} |-> Cardinality({i \in 1..Len(s) : s[i] = j})]

\* C9: in every reachable state the published list is the initial empty list
\* or holds exactly the records of page 1 and of every page 2..num_pages
\* (none for a page that failed) of the one fetch that published it.
C9_AtomicPublication ==
  \/ cachedJobs = <<>>
  \/ /\ Len(pub.rest) = pub.num_pages - 1
     /\ Records(cachedJobs) = Records(pub.page1 \o Concat(pub.rest))

\* C10: in every reachable state with a published list, the list, its
\* timestamp, the page count and the total count come from the same fetch.
C10_WholeValue ==
  cachedJobs # <<>> =>
    /\ cacheTimestamp = pub.at
    /\ totalPages = pub.num_pages
    /\ totalJobCount = pub.count

\* A bulk fetch has published a snapshot.
Published == pub.by # "-"

\* C11: once a snapshot is published, whatever its number of records, the
\* cache is valid exactly while the snapshot's age is below 30 minutes.
C11_ValidIffFresh ==
  Published => (IsCacheValid <=> now - cacheTimestamp < CACHE_DURATION)

\* The request of flow p reads the job list (it is not the search without
\* terms, which is redirected).
ReadsJobs(p) ==
  p.req.route = "jobs" \/ p.req.query # <<>> \/ p.req.location # <<>>

-----------------------------------------------------------------------------
(* Claims about the bulk fetch, checked under SpecFetch.                   *)

\* The records a page request contributed: none when it failed.
Outcome(resp) == IF resp.type = "ok" THEN resp.results ELSE <<>>

\* The outcomes of pages 2..n of flow p's fetch once page k + 1 is answered
\* with resp.
OutcomesWith(p, k, resp) ==
  [j \in 1..Len(proc[p].rest) |->
     IF j = k THEN Outcome(resp) ELSE proc[p].rest[j].results]

PageResponseIsError(resp) == resp.type = "err"

\* C13: once page 1 has succeeded, an answer to a later page, records or
\* error, never fails the fetch; the answer that completes it publishes
\* exactly the records of page 1 and of the pages that succeeded, and the
\* request is answered from that list.
C13_PartialFailureTolerated ==
  [][\A p \in Requests : \A k \in 1..(MaxFetchPages - 1) :
       \A resp \in FetchResponses(k + 1) :
         PageResponse(p, k, resp) =>
           IF \A j \in 1..Len(proc[p].rest) : j # k => proc[p].rest[j].done
           THEN /\ Records(cachedJobs') =
                     Records(proc[p].acc \o Concat(OutcomesWith(p, k, resp)))
                /\ cacheTimestamp' = now
                /\ proc'[p].pc = "done"
                /\ proc'[p].resp.kind = "fetched"
                /\ proc'[p].resp.body.count = Len(cachedJobs')
           ELSE /\ proc'[p].pc = "pages"
                /\ proc'[p].rest[k] = [done |-> TRUE, results |-> Outcome(resp)]
                /\ UNCHANGED <<cachedJobs, cacheTimestamp>>]_vars

\* C13's case: of a listing of three pages, page 2 failed and pages 1 and 3
\* were published.
C13_Witness ==
  /\ last.op = "page" /\ pub.by = last.p /\ pub.num_pages = 3
  /\ pub.rest = << <<>>, <<JC>> >>
  /\ Len(cachedJobs) = 2
  /\ proc[last.p].resp.body.count = 2

\* C14: when the request for page 1 fails, the fetch fails with that error
\* at once (its caller, the route, holds the error and turns to its single
\* page), no other page is requested and the cache is left as it was.
C14_FirstPageFailureAborts ==
  [][\A p \in Requests : \A resp \in FetchResponses(1) :
       (PageResponseIsError(resp) /\ Page1Response(p, resp)) =>
         /\ proc'[p].pc = "single"
         /\ proc'[p].err = resp.status
         /\ cache' = cache]_vars

\* C15: whatever upstream answers, a request leads to at most one
\* re-authentication by the catch blocks that handle a 401.
C15_OneReauthentication ==
  \A r \in Requests : proc[r].reauth <= 1

\* The concatenation of the pages the published list was made of.
PublishedPages == pub.page1 \o Concat(pub.rest)

\* The place of record j in list s (the records of a listing are distinct).
Position(s, j) == CHOOSE i \in 1..Len(s) : s[i] = j

\* C16: in the published list, of two adjacent records that both carry a
\* creation time the first is not the older one, and two records that
\* compare equal stand in the order of the page concatenation.
C16_PublishedSorted ==
  /\ \A i \in 1..(Len(cachedJobs) - 1) :
       (cachedJobs[i].Created # 0 /\ cachedJobs[i + 1].Created # 0)
         => cachedJobs[i].Created >= cachedJobs[i + 1].Created
  /\ Published =>
       \A i, j \in 1..Len(cachedJobs) :
         (i < j /\ CompareCreated(cachedJobs[i], cachedJobs[j]) = 0)
           => Position(PublishedPages, cachedJobs[i])
                < Position(PublishedPages, cachedJobs[j])

-----------------------------------------------------------------------------
(* Claims about the two routes, checked under SpecRoutes, where every      *)
(* answer comes from the snapshot in cachedJobs.                           *)

\* The number of pages of 20 records a list of n records fills.
NumPages(n) == CHOOSE k \in 0..n : k * 20 >= n /\ (k = 0 \/ (k - 1) * 20 < n)

Min(a, b) == IF a < b THEN a ELSE b

\* Flow r has been answered from the snapshot by GET /api/jobs.
ListServed(r) ==
  /\ proc[r].pc = "done" /\ proc[r].req.route = "jobs"
  /\ proc[r].resp.kind = "cache"

\* C17: for a page number p within 1..num_pages, the answer holds the
\* records (p-1)*20+1 .. p*20 of the snapshot (as many as there are), at
\* most 20, with count, num_pages, page_number and page_count to match.
C17_ListPageSlice ==
  \A r \in Requests :
    LET p == proc[r].req.page
        body == proc[r].resp.body
        n == Len(cachedJobs)
    IN (ListServed(r) /\ 1 <= p /\ p <= NumPages(n)) =>
         /\ body.results = SubSeq(cachedJobs, (p - 1) * 20 + 1, Min(p * 20, n))
         /\ Len(body.results) <= 20
         /\ body.count = n
         /\ body.num_pages = NumPages(n)
         /\ body.page_number = p
         /\ body.page_count = Len(body.results)

\* C17's case: the second page, a full one, and the third, a short one, of
\* a snapshot of 41 records.
C17_Witness ==
  /\ Len(cachedJobs) = 41 /\ ListServed("r1")
  /\ \/ proc["r1"].req.page = 2 /\ proc["r1"].resp.body.page_count = 20
     \/ proc["r1"].req.page = 3 /\ proc["r1"].resp.body.page_count = 1

\* C18: a page number beyond num_pages is answered with status 200, no
\* records, page_count 0, and the snapshot's count and num_pages.
C18_PageBeyondLast ==
  \A r \in Requests :
    LET body == proc[r].resp.body
        n == Len(cachedJobs)
    IN (ListServed(r) /\ proc[r].req.page > NumPages(n)) =>
         /\ proc[r].resp.status = 200
         /\ body.results = <<>>
         /\ body.page_count = 0
         /\ body.count = n
         /\ body.num_pages = NumPages(n)

\* C18's case: page 4 of a snapshot of 3 pages.
C18_Witness ==
  /\ Len(cachedJobs) = 41 /\ ListServed("r1")
  /\ proc["r1"].req.page = 4 /\ proc["r1"].resp.body.num_pages = 3

\* Field f contains term t when letter case is ignored on both sides.
ContainsIgnoringCase(f, t) ==
  f # NULL /\ Includes(ToLowerCase(f), ToLowerCase(t))

\* The text filter and the location filter of section 4.3.
PassesText(job, q) ==
  \/ ContainsIgnoringCase(job.job_title, q)
  \/ ContainsIgnoringCase(job.client, q)
  \/ ContainsIgnoringCase(job.skills, q)

PassesLocation(job, l) ==
  \/ ContainsIgnoringCase(job.city, l)
  \/ ContainsIgnoringCase(job.country, l)
  \/ ContainsIgnoringCase(job.zip_code, l)

PassesSupplied(job, req) ==
  /\ req.query # <<>> => PassesText(job, req.query)
  /\ req.location # <<>> => PassesLocation(job, req.location)

\* Flow r has been answered from the snapshot by GET /api/searchjobs, with
\* at least one filter supplied and a positive limit.
SearchServed(r) ==
  /\ proc[r].pc = "done" /\ proc[r].req.route = "search"
  /\ proc[r].resp.kind = "cache"
  /\ proc[r].req.query # <<>> \/ proc[r].req.location # <<>>
  /\ proc[r].req.limit > 0

\* C19: a search returns at most limit records, and every one of them
\* passes every filter supplied.
C19_SearchSound ==
  \A r \in Requests :
    LET results == proc[r].resp.body.results
    IN SearchServed(r) =>
         /\ Len(results) <= proc[r].req.limit
         /\ \A i \in 1..Len(results) : PassesSupplied(results[i], proc[r].req)

\* C19's case: with both filters supplied and limit 1, one of the two
\* records that pass is returned.
C19_Witness ==
  /\ SearchServed("r1")
  /\ proc["r1"].req.query # <<>> /\ proc["r1"].req.location # <<>>
  /\ proc["r1"].req.limit = 1
  /\ proc["r1"].resp.body.count = 2
  /\ Len(proc["r1"].resp.body.results) = 1

\* C20: a search returns the first limit records, in snapshot order, of all
\* the snapshot's records that pass every filter supplied; count is the
\* number of those records, next is true exactly when count > limit, and
\* previous is null.
C20_SearchComplete ==
  \A r \in Requests :
    LET body == proc[r].resp.body
        pass(job) == PassesSupplied(job, proc[r].req)
        passing == SelectSeq(cachedJobs, pass)
    IN SearchServed(r) =>
         /\ body.results = SubSeq(passing, 1, Min(proc[r].req.limit, Len(passing)))
         /\ body.count = Len(passing)
         /\ body.next = (IF Len(passing) > proc[r].req.limit THEN 1 ELSE 0)
         /\ body.previous = 0

\* The places of the snapshot's records that pass the location filter of
\* section 4.4 for term l.
PassingLocation(l) ==
  {i \in 1..Len(cachedJobs) : PassesLocation(cachedJobs[i], l)}

\* C21: a search by location alone counts every record of the snapshot whose
\* city, country or zip code contains the term when letter case is ignored
\* on both sides, and no other record.
C21_LocationIgnoresCase ==
  \A r \in Requests :
    (SearchServed(r) /\ proc[r].req.query = <<>>) =>
      proc[r].resp.body.count = Cardinality(PassingLocation(proc[r].req.location))

-----------------------------------------------------------------------------
(* Claims about failures, checked under SpecCache.                         *)

\* C23: when the bulk fetch of a request has failed while a snapshot with
\* records, published at an earlier time, is held, the request is answered with an error (or a
\* redirect) or with the answer the snapshot gives: a successful answer is
\* never empty in the snapshot's place nor taken from anything else.
C23_StaleBeatsEmpty ==
  [][\A p \in Requests : \A resp \in PageResponses(1) :
       (/\ cachedJobs # <<>> /\ Published /\ cacheTimestamp < now
        /\ SingleResponse(p, resp)
        /\ proc'[p].pc = "done"
        /\ proc'[p].resp.status = 200) =>
         proc'[p].resp.body = RouteBody(proc[p].req, cachedJobs, totalJobCount)]_vars

\* The step is the one at which the scheduled cache refresh fails: page 1
\* is answered with an error that is no authentication error, or the
\* re-authentication of the fetch fails, or the retry brings no results.
CacheTimerFails ==
  \/ \E resp \in PageResponses(1) :
       /\ PageResponseIsError(resp) /\ resp.status \notin AuthStatuses
       /\ Page1Response("cacheTimer", resp)
  \/ \E resp \in CacheAuthResponses :
       ~AuthSucceeds(resp) /\ AuthResponseFetch("cacheTimer", resp)
  \/ \E resp \in PageResponses(1) :
       ~HasResults(resp) /\ RetryResponse("cacheTimer", resp)

\* C25: a scheduled cache refresh that fails leaves the published list and
\* its timestamp as they were, ends with the timer's flow idle, the server
\* listening and the next firing still ahead, and touches no request.
C25_BackgroundFailureSwallowed ==
  [][CacheTimerFails =>
       /\ cachedJobs' = cachedJobs
       /\ cacheTimestamp' = cacheTimestamp
       /\ pub' = pub
       /\ listening'
       /\ proc'["cacheTimer"] = IdleProc
       /\ cacheTimerDue' = cacheTimerDue /\ cacheTimerDue' > now'
       /\ \A p \in Procs \ {"cacheTimer"} : proc'[p] = proc[p]]_vars

\* C25's case: the scheduled refresh has just failed while a snapshot of an
\* earlier time is held; the snapshot is still there.
C25_Witness ==
  /\ last.p = "cacheTimer" /\ last.op \in {"page1", "retry1", "getAuthTokens"}
  /\ proc["cacheTimer"].pc = "idle"
  /\ cachedJobs # <<>> /\ cacheTimestamp < now

\* Flow p awaits the answer to a request for a page of the listing.
AwaitsPage(p) == proc[p].pc \in {"page1", "pages", "retry1", "single"}

\* C26: every flow that has a page request in flight, a request's or the
\* cache timer's, went through ensureToken first, and ensureToken let it
\* proceed.
C26_EnsureBeforeUpstream ==
  \A p \in Procs : AwaitsPage(p) => proc[p].mw = "next"

-----------------------------------------------------------------------------
(* Claims about the order of the page requests, checked under SpecFetch.   *)

\* The pages after the first that flow q has requested in its bulk fetch.
RequestedPages(q) ==
  IF q.pc = "pages" THEN {k + 1 : k \in 1..Len(q.rest)} ELSE {}

\* C27: while the answer to page 1 is awaited no other page has been
\* requested; the answer to page 1 of a bulk fetch, reporting n pages, is
\* followed by requests for exactly the pages 2..n (none when n = 1, and the
\* fetch is complete); an answer to one of them adds no request and is
\* taken once.
C27_PageOneFirst ==
  /\ [](\A p \in Procs : proc[p].pc \in {"page1", "retry1"} => proc[p].rest = <<>>)
  /\ [][\A p \in Procs : \A resp \in FetchResponses(1) :
          (\/ resp.type = "ok" /\ Page1Response(p, resp)
           \/ HasResults(resp) /\ RetryResponse(p, resp)) =>
            /\ RequestedPages(proc'[p]) = 2..resp.num_pages
            /\ \A k \in 1..Len(proc'[p].rest) : ~proc'[p].rest[k].done
            /\ resp.num_pages = 1 => proc'[p].pc \in {"done", "idle"}]_vars
  /\ [][\A p \in Procs : \A k \in 1..(MaxFetchPages - 1) :
          \A resp \in FetchResponses(k + 1) :
            PageResponse(p, k, resp) =>
              /\ ~proc[p].rest[k].done
              /\ proc'[p].pc = "pages" =>
                   /\ RequestedPages(proc'[p]) = RequestedPages(proc[p])
                   /\ proc'[p].rest[k].done]_vars

\* Flow p awaits a getAuthTokens() that fetchAllJobsAndUpdateCache called.
FetchAuthenticates(p) == proc[p].pc = "auth" /\ proc[p].ctx = "fetch"

\* C28: a bulk fetch never calls getAuthTokens or refreshAccessToken,
\* whatever its page requests are answered with, and no step of it changes
\* the credential.
C28_FetcherLeavesCredential ==
  /\ [](\A p \in Procs : ~FetchAuthenticates(p))
  /\ [][(last'.op \in {"page1", "page", "retry1"} \/ last'.ctx = "fetch")
          => cred' = cred]_vars

\* The published list came out of the fan-out over the pages after the
\* first.
FannedOut == Published /\ pub.rest # <<>>

\* C29: the list a fan-out publishes is a function of what upstream answered
\* for each page number: it is the sorted concatenation of the pages taken
\* by page number, whatever order the answers arrived in. Two fetches with
\* the same answer for each page number therefore publish the same list.
C29_ArrivalOrderIndependent ==
  FannedOut => cachedJobs = SortByCreated(pub.page1 \o Concat(pub.rest))

\* C29's case: of three pages the third was answered before the second, and
\* the records of all three were published.
C29_Witness ==
  /\ FannedOut /\ pub.order = <<2, 1>>
  /\ pub.page1 = <<JA>> /\ pub.rest = << <<JB>>, <<JC>> >>
  /\ Len(cachedJobs) = 3

-----------------------------------------------------------------------------
(* Claims about a request from arrival to response, checked under          *)
(* SpecForeground and SpecForegroundLive.                                  *)

\* Flow r has a request that has not been answered yet.
Pending(r) == proc[r].pc \notin {"idle", "done"}

\* The responses a handler sends: a success payload, a redirect, or an
\* error payload.
IsResponse(resp) ==
  \/ resp.status = 200 /\ resp.kind \in {"cache", "fetched", "single"}
  \/ resp.status = 302 /\ resp.kind = "redirect"
  \/ resp.status = 500 /\ resp.kind \in {"authError", "error"}

\* C24: a request whose upstream calls are all answered ends with a
\* response; the response is a success payload, a redirect or an error
\* payload, and once it is sent nothing more is sent for that request (the
\* flow stays as it is until the next request arrives on it).
C24_ExactlyOneResponse ==
  /\ \A r \in Requests : Pending(r) ~> (proc[r].pc = "done")
  /\ [](\A r \in Requests : proc[r].pc = "done" => IsResponse(proc[r].resp))
  /\ [][\A r \in Requests :
          proc[r].pc = "done" =>
            \/ proc'[r] = proc[r]
            \/ last'.op = "ensureToken" /\ last'.p = r]_vars

\* C24's case: a list request whose fetch and single page both failed with
\* status 401 and whose re-authentication failed too has got its error
\* payload.
C24_Witness ==
  /\ proc["r1"].pc = "done" /\ proc["r1"].req.route = "jobs"
  /\ proc["r1"].resp = RouteErrorResp
  /\ last.p = "r1" /\ last.ctx = "route"
  /\ last.op = "getAuthTokens" /\ ~AuthSucceeds(last.resp)

\* C30: a page request of a route answered with status 401 or 403 leads to
\* a re-authentication; for one request the catch blocks re-authenticate at
\* most once; and the redirect that makes the client retry names the
\* request itself: the same route with the same page number, or the same
\* query, location and limit.
C30_RetriesTriggeringRequest ==
  /\ [](\A r \in Requests :
          (proc[r].pc = "done" /\ proc[r].resp.kind = "redirect"
             /\ ReadsJobs(proc[r])) => proc[r].resp.to = proc[r].req)
  /\ [](\A r \in Requests : proc[r].reauth <= 1)
  /\ [][\A r \in Requests : \A resp \in FetchResponses(1) :
          (resp.status \in {401, 403} /\ SingleResponse(r, resp)) =>
            proc'[r].pc = "auth"]_vars

-----------------------------------------------------------------------------
(* Claims about the background token fetches, checked under Spec.          *)

\* C31: a getAuthTokens() of the start-up fetch or of the token timer that
\* fails leaves the credential as it was, so that ensureToken decides as
\* before; the server keeps listening, the flow is idle again, the timers
\* stay scheduled and no request is touched.
C31_BackgroundAuthFailureSwallowed ==
  [][\A p \in Background : \A resp \in AuthResponses :
       (~AuthSucceeds(resp) /\ AuthResponseBackground(p, resp)) =>
         /\ cred' = cred
         /\ EnsureDecision' = EnsureDecision
         /\ listening'
         /\ proc'[p] = IdleProc
         /\ timers' = timers /\ tokenTimerDue' >= now'
         /\ \A q \in Procs \ {p} : proc'[q] = proc[q]]_vars

\* C31's case: the scheduled token refresh has just failed while a
\* credential was held; the credential is still held.
C31_Witness ==
  /\ last.op = "getAuthTokens" /\ last.p = "tokenTimer"
  /\ ~AuthSucceeds(last.resp)
  /\ accessToken # NULL /\ refreshToken # NULL
  /\ listening /\ proc["tokenTimer"].pc = "idle"

\* C35: a refreshToken answer that arrives after a getAuthTokens() replaced
\* the credential the refresh was asked for changes neither the access token
\* nor its expiry, so that both stay those of the authentication the refresh
\* token and its expiry are of.
C35_CredentialCoherent ==
  [][\A r \in Requests : \A resp \in RefreshResponses :
       (RefreshResponse(r, resp) /\ refreshTokenExpiry # proc[r].session) =>
         /\ accessToken' = accessToken
         /\ accessTokenExpiry' = accessTokenExpiry]_vars

-----------------------------------------------------------------------------
(* Claims about the cache under concurrent flows, checked under SpecCache. *)

\* C32: while the latest snapshot is one a scheduled refresh published less
\* than 30 minutes ago, a foreground read is answered from the cache and
\* starts no bulk fetch.
C32_RefreshKeepsWarm ==
  [][(/\ pub.by = "cacheTimer" /\ cacheTimestamp = pub.at
      /\ now - pub.at < CACHE_DURATION
      /\ JustProceeded' /\ ReadsJobs(proc'[last'.p])) =>
       /\ proc'[last'.p].pc = "done"
       /\ proc'[last'.p].resp.kind = "cache"]_vars

-----------------------------------------------------------------------------
(* Claims about one foreground flow over time, checked under               *)
(* SpecForeground.                                                         *)

\* C33: cachedJobs changes only in the step in which a bulk fetch publishes,
\* and is then the list that fetch assembled; every other step, whatever a
\* handler filters, truncates or sorts, leaves its records and their order
\* as they were.
C33_SnapshotImmutable ==
  [][/\ cachedJobs' # cachedJobs =>
          /\ last'.op \in {"page1", "page", "retry1"}
          /\ pub' # pub /\ pub'.at = now'
     /\ pub' # pub =>
          cachedJobs' = IF last'.op = "retry1" THEN pub'.page1
                        ELSE SortByCreated(PublishedPages')
     /\ pub' = pub => cachedJobs' = cachedJobs]_vars

\* C33's case: the search's fall-back has sorted its page and answered while
\* a published list that is not in sorted order stands.
C33_Witness ==
  /\ last.op = "single" /\ proc["r1"].req.route = "search"
  /\ proc["r1"].resp.kind = "single" /\ proc["r1"].resp.body.results # <<>>
  /\ cachedJobs = <<JA, JB>>

\* Flow r has been answered by the fall-back of its route.
FellBack(r) == proc[r].pc = "done" /\ proc[r].resp.kind = "single"

\* C39: whatever the fall-back request of a route is answered with,
\* cachedJobs, cacheTimestamp, totalPages and totalJobCount stay as they
\* are and the cache stays invalid; the next read of the flow that was
\* answered by the fall-back starts a bulk fetch again.
C39_FallbackPublishesNothing ==
  [][/\ \A r \in Requests : \A resp \in FetchResponses(1) :
          SingleResponse(r, resp) =>
            /\ cache' = cache /\ pub' = pub
            /\ ~IsCacheValid /\ ~IsCacheValid'
     /\ \A r \in Requests :
          (/\ FellBack(r) /\ JustProceeded' /\ last'.p = r
           /\ ReadsJobs(proc'[r])) => proc'[r].pc = "page1"]_vars

\* C39's case: the fall-back of a list request has answered with the page
\* it received, and nothing is published.
C39_Witness ==
  /\ last.op = "single" /\ FellBack("r1")
  /\ proc["r1"].req.route = "jobs" /\ proc["r1"].resp.body.results # <<>>
  /\ cachedJobs = <<>> /\ cacheTimestamp = NullTime /\ pub = NoPub

-----------------------------------------------------------------------------
(* Claims about reads and fetches that overlap, checked under SpecCache.   *)

\* Flow q has a bulk fetch in flight.
Fetching(q) == FetchingIn(proc, q)

\* C34: a read that finds the cache valid while another flow's bulk fetch is
\* in flight is answered in the same step from cachedJobs as it stands, and
\* the fetch goes on as it was.
C34_ReadsNotStarved ==
  [][(/\ JustProceeded' /\ IsCacheValid /\ ReadsJobs(proc'[last'.p])
      /\ \E q \in Procs \ {last'.p} : Fetching(q)) =>
       /\ proc'[last'.p].pc = "done"
       /\ proc'[last'.p].resp.kind = "cache"
       /\ proc'[last'.p].resp.body =
            RouteBody(proc'[last'.p].req, cachedJobs, totalJobCount)
       /\ cachedJobs # <<>>
       /\ \A q \in Procs \ {last'.p} : Fetching(q) => proc'[q] = proc[q]]_vars

\* C34's case: a request was answered from the snapshot of 25 minutes ago
\* while the scheduled refresh awaits its first page.
C34_Witness ==
  /\ last.op = "ensureToken" /\ last.p = "r1"
  /\ proc["r1"].resp.kind = "cache" /\ proc["r1"].resp.body.results = cachedJobs
  /\ proc["cacheTimer"].pc = "page1"
  /\ now - cacheTimestamp = CACHE_REFRESH_INTERVAL

\* C36: the published list is never replaced by another list from a bulk
\* fetch that started before the fetch whose snapshot is in place.
C36_NoOlderFetchPublishes ==
  [][(pub' # pub /\ cachedJobs' # cachedJobs) =>
       pub'.by \notin last.overtaken]_vars

-----------------------------------------------------------------------------
(* Claims about the list route over a snapshot, checked under SpecRoutes.  *)

\* The sum of the page_count values of the pages 1..k of the snapshot.
RECURSIVE PageCounts(_)
PageCounts(k) ==
  IF k = 0 THEN 0
  ELSE ListPageBody(cachedJobs, k).page_count + PageCounts(k - 1)

\* C37: the results of the pages 1..num_pages of the snapshot, one after the
\* other, are the snapshot, their page_count values add up to count, and a
\* request for one of these pages is answered with that page.
C37_PagesPartition ==
  LET n == NumPages(Len(cachedJobs))
  IN /\ Concat([p \in 1..n |-> ListPageBody(cachedJobs, p).results]) = cachedJobs
     /\ PageCounts(n) = Len(cachedJobs)
     /\ \A p \in 1..n : ListPageBody(cachedJobs, p).count = Len(cachedJobs)
     /\ \A r \in Requests :
          (ListServed(r) /\ proc[r].req.page \in 1..n) =>
            proc[r].resp.body = ListPageBody(cachedJobs, proc[r].req.page)

\* C37's case: the last of the three pages of a snapshot of 41 records has
\* been served and holds the last record alone.
C37_Witness ==
  /\ Len(cachedJobs) = 2 * PAGE_SIZE + 1 /\ ListServed("r1")
  /\ proc["r1"].req.page = 3
  /\ proc["r1"].resp.body.results = <<cachedJobs[2 * PAGE_SIZE + 1]>>

\* C38: a request for a page number of 0 or below, served from a snapshot
\* that holds records, is answered with no records and page_count 0.
C38_PageBelowFirst ==
  \A r \in Requests :
    (ListServed(r) /\ proc[r].req.page <= 0 /\ cachedJobs # <<>>) =>
      /\ proc[r].resp.body.results = <<>>
      /\ proc[r].resp.body.page_count = 0

====
